---- MODULE Spec2Model ----
(***************************************************************************)
(* Model of min-s3-viewer (server.js): the two Express route handlers,     *)
(* the path parser and the listing renderer.  Strings that the code takes  *)
(* apart (request paths, keys, prefixes) are sequences of one-character    *)
(* strings; opaque values (header values, error names) are TLA+ strings.   *)
(* A handler is cut at its awaits: one action runs the code from one       *)
(* suspension point to the next.                                           *)
(***************************************************************************)
EXTENDS Integers, Sequences, FiniteSets, TLC

VARIABLES phase, path, parsed, calls, failures, head, listed, status, headers, body, crashed

vars == <<phase, path, parsed, calls, failures, head, listed, status, headers, body, crashed>>

-----------------------------------------------------------------------------
(* Bounds *)

MaxPathLen == 6
MaxBuckets == 2

-----------------------------------------------------------------------------
(* Values *)

Chars == {"/", "a", "."}

\* JS null for a string-valued slot (bucket, key): a sequence no path holds.
Null == <<"null">>

\* JS undefined / false for an opaque string-valued slot.
Undefined == "undefined"
False == "false"

\* JS truthiness of an opaque string value.
Truthy(v) == v \notin {Undefined, False, ""}

\* JS a || b
Or(a, b) == IF Truthy(a) THEN a ELSE b

\* JS truthiness of a string held as a character sequence (or null).
TruthyStr(s) == s /= Null /\ s /= <<>>

RECURSIVE SeqsUpTo(_, _)
SeqsUpTo(S, n) ==
  IF n = 0 THEN {<<>>}
  ELSE LET shorter == SeqsUpTo(S, n - 1)
       IN  shorter \cup {Append(s, c) : s \in {t \in shorter : Len(t) = n - 1}, c \in S}

\* req.path always starts with "/".
Paths == {<<"/">> \o s : s \in SeqsUpTo(Chars, MaxPathLen - 1)}

-----------------------------------------------------------------------------
(* String primitives of the JS runtime, as the code uses them *)

\* s.replace(/^\/+/, "")
RECURSIVE StripLeadingSlashes(_)
StripLeadingSlashes(s) ==
  IF s /= <<>> /\ Head(s) = "/" THEN StripLeadingSlashes(Tail(s)) ELSE s

\* s.replace(/\/$/, ""): at most one trailing slash goes.
StripTrailingSlash(s) ==
  IF s /= <<>> /\ s[Len(s)] = "/" THEN SubSeq(s, 1, Len(s) - 1) ELSE s

\* s.endsWith("/")
EndsWithSlash(s) == s /= <<>> /\ s[Len(s)] = "/"

\* s.split(sep): always at least one piece; "" splits to [""].
RECURSIVE Split(_, _)
Split(s, sep) ==
  IF s = <<>> THEN << <<>> >>
  ELSE LET rest == Split(Tail(s), sep)
       IN  IF Head(s) = sep THEN << <<>> >> \o rest
           ELSE << <<Head(s)>> \o Head(rest) >> \o Tail(rest)

\* parts.filter(Boolean)
RECURSIVE FilterBoolean(_)
FilterBoolean(parts) ==
  IF parts = <<>> THEN <<>>
  ELSE IF Head(parts) = <<>> THEN FilterBoolean(Tail(parts))
  ELSE <<Head(parts)>> \o FilterBoolean(Tail(parts))

\* parts.join(sep)
RECURSIVE Join(_, _)
Join(parts, sep) ==
  IF parts = <<>> THEN <<>>
  ELSE IF Len(parts) = 1 THEN parts[1]
  ELSE parts[1] \o <<sep>> \o Join(Tail(parts), sep)

\* parts.slice(0, -1)
DropLast(parts) == IF parts = <<>> THEN <<>> ELSE SubSeq(parts, 1, Len(parts) - 1)

\* s.slice(n)
SliceFrom(s, n) == IF n >= Len(s) THEN <<>> ELSE SubSeq(s, n + 1, Len(s))

-----------------------------------------------------------------------------
(* parseBucketAndKey *)

\* parseBucketAndKey without the filter(Boolean).
parseBucketAndKey_NoFilter(reqPath) ==
  LET p == StripLeadingSlashes(reqPath)
      parts == Split(p, "/")
  IN  IF Len(parts) < 1 THEN [bucket |-> Null, key |-> Null]
      ELSE [bucket |-> parts[1], key |-> Join(Tail(parts), "/")]

parseBucketAndKey(reqPath) ==
  LET p == StripLeadingSlashes(reqPath)
      parts == FilterBoolean(Split(p, "/"))
  IN  IF Len(parts) < 1 THEN [bucket |-> Null, key |-> Null]
      ELSE [bucket |-> parts[1], key |-> Join(Tail(parts), "/")]

-----------------------------------------------------------------------------
(* mime.lookup, as server.js uses it on the key *)

\* Last position of c in s, 0 when c does not occur.
LastIndexOf(s, c) ==
  LET hits == {i \in 1..Len(s) : s[i] = c}
  IN  IF hits = {} THEN 0 ELSE CHOOSE i \in hits : \A j \in hits : j <= i

\* path.extname: the last segment's suffix from its last dot; "" when the
\* segment has no dot, starts with its only dot, or is "..".
extname(p) ==
  LET segs == Split(p, "/")
      base == segs[Len(segs)]
      dot  == LastIndexOf(base, ".")
  IN  IF dot = 0 \/ dot = 1 \/ base = <<".", ".">> THEN <<>>
      ELSE SubSeq(base, dot, Len(base))

\* The extension table: "a" is the one extension the model's alphabet can
\* spell that has a registered type.
MimeTypes(ext) == IF ext = <<"a">> THEN "type/a" ELSE Undefined

\* mime.lookup(key): extname("x." + key) without its dot, looked up in the
\* table; false when there is no extension or no type for it.  (The
\* lower-casing is the identity on the model's alphabet.)
mimeLookup(key) ==
  LET extension == SliceFrom(extname(<<"x", ".">> \o key), 1)
  IN  IF extension = <<>> THEN False
      ELSE Or(MimeTypes(extension), False)

-----------------------------------------------------------------------------
(* Remote results *)

\* An optional array field of an SDK result (result.X || []).
Absent == [defined |-> FALSE, value |-> <<>>]
Present(v) == [defined |-> TRUE, value |-> v]
OrEmpty(field) == IF field.defined THEN field.value ELSE <<>>

\* err?.$metadata?.httpStatusCode of an error without $metadata.
NoStatus == 0

HeadErrors == {[name |-> "NotFound", status |-> 404],
               [name |-> "AccessDenied", status |-> 403],
               [name |-> "TimeoutError", status |-> NoStatus]}

GetErrors == {[name |-> "NoSuchKey", status |-> 404],
              [name |-> "AccessDenied", status |-> 403],
              [name |-> "TimeoutError", status |-> NoStatus]}

ListErrors == {[name |-> "NoSuchBucket", status |-> 404],
               [name |-> "AccessDenied", status |-> 403],
               [name |-> "TimeoutError", status |-> NoStatus]}

ListBucketsErrors == {[name |-> "AccessDenied", status |-> 403],
                      [name |-> "TimeoutError", status |-> NoStatus]}

\* HeadObject output: the three fields the handler reads.
HeadResults == [ContentType : {Undefined, "", "text/x"},
                CacheControl : {Undefined, "", "max-age=60"},
                ETag : {Undefined, "", "etag-1"}]

\* What the last list call returned, after the "|| []" defaults.
NoListing == [received |-> FALSE]
Listing(folders, files) == [received |-> TRUE, folders |-> folders, files |-> files]
BucketListing(buckets) == [received |-> TRUE, buckets |-> buckets]

NoHead == [received |-> FALSE, ContentType |-> Undefined,
           CacheControl |-> Undefined, ETag |-> Undefined]

\* ListObjectsV2 output for Prefix = prefix, Delimiter = "/": folders are
\* prefix + name + "/", files are prefix + name, or the prefix marker itself.
ListResults(prefix) ==
  LET folder == [Prefix |-> prefix \o <<"a", "/">>]
      file   == [Key |-> prefix \o <<"a">>]
      marker == [Key |-> prefix]
      markerSeqs == IF prefix = <<>> THEN {} ELSE {<<marker>>, <<marker, file>>}
  IN  [CommonPrefixes : {Absent, Present(<<>>), Present(<<folder>>)},
       Contents : {Absent, Present(<<>>), Present(<<file>>)}
                  \cup {Present(fs) : fs \in markerSeqs}]

\* bucket.CreationDate.toISOString(), as the pieces around its "T".
IsoDate == <<"2024-01-02", "T", "03:04:05.000Z">>

BucketNames == {<<"a">>, <<"a", "a">>}

Buckets == [Name : BucketNames,
            CreationDate : {Absent, Present(IsoDate)}]

ListBucketsResults ==
  [Buckets : {Absent} \cup {Present(bs) : bs \in SeqsUpTo(Buckets, MaxBuckets)}]

-----------------------------------------------------------------------------
(* The response object *)

NoHeaders == [ContentType |-> <<>>, CacheControl |-> Undefined, ETag |-> Undefined]

HtmlUtf8 == <<"text/html", "charset=utf-8">>

\* The entity tag res.send computes for a body when none is set.
GeneratedETag == "W/generated"

\* What res.send(string) does to the headers: Content-Type defaults to html,
\* its charset becomes utf-8, and an ETag is generated unless one is set.
SendHeaders(h) ==
  [h EXCEPT !.ContentType = IF @ = <<>> THEN HtmlUtf8 ELSE <<@[1], "charset=utf-8">>,
            !.ETag = IF @ = Undefined THEN GeneratedETag ELSE @]

NoBody == [kind |-> "none"]
TextBody(t) == [kind |-> "text", text |-> t]

\* The test with the HeadObject error name left out.
IsNotFound_NameOnly(err) == err.name = "NoSuchKey"

\* The test taking any named error for a not-found.
IsNotFound_AnyNamed(err) == err.status = 404 \/ err.name /= ""

\* The test of the inner catch clause.
IsNotFound(err) ==
  err.status = 404 \/ err.name = "NotFound" \/ err.name = "NoSuchKey"

Call(op, bucket, arg) == [op |-> op, bucket |-> bucket, arg |-> arg]

-----------------------------------------------------------------------------
(* generateIndexHtml: the page as its title, breadcrumb links and rows *)

Link(kind, href, text) == [kind |-> kind, href |-> href, text |-> text]

\* The loop over pathParts: one link per part, each to the cumulative path.
RECURSIVE Breadcrumbs(_, _)
Breadcrumbs(currentPath, pathParts) ==
  IF pathParts = <<>> THEN <<>>
  ELSE LET next == currentPath \o <<"/">> \o Head(pathParts)
       IN  <<Link("crumb", next, Head(pathParts))>> \o Breadcrumbs(next, Tail(pathParts))

\* reqPath.replace(/\/$/, "").split("/").slice(0, -1).join("/") || `/${bucket}`
parentPath(bucket, reqPath) ==
  LET joined == Join(DropLast(Split(StripTrailingSlash(reqPath), "/")), "/")
  IN  IF joined /= <<>> THEN joined ELSE <<"/">> \o bucket

ParentRows(bucket, prefix, reqPath) ==
  IF prefix /= <<>> THEN <<Link("parent", parentPath(bucket, reqPath), <<".", ".">>)>>
  ELSE <<>>

RECURSIVE FolderRows(_, _, _)
FolderRows(bucket, prefix, folders) ==
  IF folders = <<>> THEN <<>>
  ELSE LET folder == Head(folders)
           folderName == StripTrailingSlash(SliceFrom(folder.Prefix, Len(prefix)))
           folderPath == <<"/">> \o bucket \o <<"/">> \o folder.Prefix
       IN  <<Link("folder", folderPath, folderName \o <<"/">>)>>
           \o FolderRows(bucket, prefix, Tail(folders))

RECURSIVE FileRows(_, _, _)
FileRows(bucket, prefix, files) ==
  IF files = <<>> THEN <<>>
  ELSE LET file == Head(files)
           fileName == SliceFrom(file.Key, Len(prefix))
           filePath == <<"/">> \o bucket \o <<"/">> \o file.Key
       IN  (IF fileName = <<>> THEN <<>> ELSE <<Link("file", filePath, fileName)>>)
           \o FileRows(bucket, prefix, Tail(files))

generateIndexHtml(bucket, prefix, folders, files, reqPath) ==
  LET pathParts == IF prefix /= <<>> THEN FilterBoolean(Split(prefix, "/")) ELSE <<>>
      rootPath == <<"/">> \o bucket
  IN  [kind |-> "listing",
       title |-> reqPath,
       prefix |-> prefix,
       breadcrumbs |-> <<Link("crumb", rootPath, bucket)>> \o Breadcrumbs(rootPath, pathParts),
       rows |-> ParentRows(bucket, prefix, reqPath)
                \o FolderRows(bucket, prefix, folders)
                \o FileRows(bucket, prefix, files)]

\* The rows built back to front.
RECURSIVE BucketRows_Reversed(_)
BucketRows_Reversed(buckets) ==
  IF buckets = <<>> THEN <<>>
  ELSE LET bucket == Head(buckets)
           creationDate == IF bucket.CreationDate.defined
                           THEN Split(bucket.CreationDate.value, "T")[1]
                           ELSE <<"-">>
       IN  BucketRows_Reversed(Tail(buckets))
           \o <<[href |-> <<"/">> \o bucket.Name, text |-> bucket.Name,
                 created |-> creationDate]>>

\* The buckets page of the root handler: one row per bucket.
RECURSIVE BucketRows(_)
BucketRows(buckets) ==
  IF buckets = <<>> THEN <<>>
  ELSE LET bucket == Head(buckets)
           creationDate == IF bucket.CreationDate.defined
                           THEN Split(bucket.CreationDate.value, "T")[1]
                           ELSE <<"-">>
       IN  <<[href |-> <<"/">> \o bucket.Name, text |-> bucket.Name,
              created |-> creationDate]>>
           \o BucketRows(Tail(buckets))

-----------------------------------------------------------------------------
(* State *)

Init ==
  /\ phase = "idle"
  /\ path = <<>>
  /\ parsed = [bucket |-> Null, key |-> Null]
  /\ calls = <<>>
  /\ failures = <<>>
  /\ head = NoHead
  /\ listed = NoListing
  /\ status = 200
  /\ headers = NoHeaders
  /\ body = NoBody
  /\ crashed = FALSE

\* res.status(code).send(text)
SendText(code, text) ==
  /\ status' = code
  /\ headers' = SendHeaders(headers)
  /\ body' = TextBody(text)
  /\ phase' = "done"

\* res.setHeader("Content-Type", "text/html; charset=utf-8"); res.send(html)
SendHtml(page) ==
  /\ headers' = SendHeaders([headers EXCEPT !.ContentType = HtmlUtf8])
  /\ body' = page
  /\ phase' = "done"
  /\ UNCHANGED status

Failed(op, err) == Append(failures, [op |-> op, err |-> err])

\* The outer catch of the /.*/ handler.
OuterCatch(op, err) ==
  /\ failures' = Failed(op, err)
  /\ SendText(500, "Error fetching from S3")

-----------------------------------------------------------------------------
(* app.get("/") *)

RootRequest ==
  /\ phase = "idle"
  /\ path' = <<"/">>
  /\ calls' = <<Call("ListBuckets", Null, Null)>>
  /\ phase' = "awaitListBuckets"
  /\ UNCHANGED <<parsed, failures, head, listed, status, headers, body, crashed>>

ListBucketsOk ==
  /\ phase = "awaitListBuckets"
  /\ \E result \in ListBucketsResults :
       LET buckets == OrEmpty(result.Buckets)
       IN  /\ listed' = BucketListing(buckets)
           /\ SendHtml([kind |-> "buckets", rows |-> BucketRows(buckets)])
  /\ UNCHANGED <<path, parsed, calls, failures, head, crashed>>

ListBucketsFail ==
  /\ phase = "awaitListBuckets"
  /\ \E err \in ListBucketsErrors :
       /\ failures' = Failed("ListBuckets", err)
       /\ SendText(500, "Error listing buckets")
  /\ UNCHANGED <<path, parsed, calls, head, listed, crashed>>

-----------------------------------------------------------------------------
(* app.get(/.*/) *)

\* The handler up to "if (!bucket)": 400.
BadPathRequest ==
  /\ phase = "idle"
  /\ \E p \in Paths \ {<<"/">>} :
       LET pk == parseBucketAndKey(p)
       IN  /\ ~TruthyStr(pk.bucket)
           /\ path' = p
           /\ parsed' = pk
           /\ SendText(400, "Bad path. Use /<bucket>/<key...>")
  /\ UNCHANGED <<calls, failures, head, listed, crashed>>

\* The directory branch up to the await in listS3Objects.
DirectoryRequest ==
  /\ phase = "idle"
  /\ \E p \in Paths \ {<<"/">>} :
       LET pk == parseBucketAndKey(p)
           prefix == IF TruthyStr(pk.key) THEN pk.key ELSE <<>>
       IN  /\ TruthyStr(pk.bucket)
           /\ ~TruthyStr(pk.key) \/ EndsWithSlash(pk.key)
           /\ path' = p
           /\ parsed' = pk
           /\ calls' = <<Call("ListObjects", pk.bucket, prefix)>>
           /\ phase' = "awaitList"
  /\ UNCHANGED <<failures, head, listed, status, headers, body, crashed>>

ListOk ==
  /\ phase = "awaitList"
  /\ LET prefix == calls[Len(calls)].arg
     IN  \E result \in ListResults(prefix) :
           LET folders == OrEmpty(result.CommonPrefixes)
               files == OrEmpty(result.Contents)
           IN  /\ listed' = Listing(folders, files)
               /\ SendHtml(generateIndexHtml(parsed.bucket, prefix, folders, files, path))
  /\ UNCHANGED <<path, parsed, calls, failures, head, crashed>>

\* A failed listing tried again instead of surfacing.
ListFail_Retry ==
  /\ phase = "awaitList"
  /\ \E err \in ListErrors : failures' = Failed("ListObjects", err)
  /\ calls' = Append(calls, calls[Len(calls)])
  /\ UNCHANGED <<path, parsed, head, listed, status, headers, body, phase, crashed>>

ListFail ==
  /\ phase = "awaitList"
  /\ \E err \in ListErrors : OuterCatch("ListObjects", err)
  /\ UNCHANGED <<path, parsed, calls, head, listed, crashed>>

\* The object branch up to the await of HeadObject.
ObjectRequest ==
  /\ phase = "idle"
  /\ \E p \in Paths \ {<<"/">>} :
       LET pk == parseBucketAndKey(p)
       IN  /\ TruthyStr(pk.bucket)
           /\ ~(~TruthyStr(pk.key) \/ EndsWithSlash(pk.key))
           /\ path' = p
           /\ parsed' = pk
           /\ calls' = <<Call("HeadObject", pk.bucket, pk.key)>>
           /\ phase' = "awaitHead"
  /\ UNCHANGED <<failures, head, listed, status, headers, body, crashed>>

\* The inference taking precedence over the stored type.
contentType_MimeFirst(h, key) ==
  Or(Or(mimeLookup(key), h.ContentType), "application/octet-stream")

\* head.ContentType || mime.lookup(key) || "application/octet-stream"
contentType(h, key) ==
  Or(Or(h.ContentType, mimeLookup(key)), "application/octet-stream")

\* The three setHeader lines after the metadata check.
ObjectHeaders(h, key) ==
  [ContentType |-> <<contentType(h, key)>>,
   CacheControl |-> IF Truthy(h.CacheControl) THEN h.CacheControl ELSE headers.CacheControl,
   ETag |-> IF Truthy(h.ETag) THEN h.ETag ELSE headers.ETag]

HeadOk ==
  /\ phase = "awaitHead"
  /\ \E h \in HeadResults :
       /\ head' = [received |-> TRUE, ContentType |-> h.ContentType,
                   CacheControl |-> h.CacheControl, ETag |-> h.ETag]
       /\ headers' = ObjectHeaders(h, parsed.key)
  /\ calls' = Append(calls, Call("GetObject", parsed.bucket, parsed.key))
  /\ phase' = "awaitGet"
  /\ UNCHANGED <<path, parsed, failures, listed, status, body, crashed>>

\* The inner catch: a not-found starts the directory fallback, anything else
\* is rethrown to the outer catch.
InnerCatch(op, err) ==
  IF IsNotFound(err)
  THEN LET key == parsed.key
           prefix == IF EndsWithSlash(key) THEN key ELSE key \o <<"/">>
       IN  /\ failures' = Failed(op, err)
           /\ calls' = Append(calls, Call("ListObjects", parsed.bucket, prefix))
           /\ phase' = "awaitFallbackList"
           /\ UNCHANGED <<status, headers, body>>
  ELSE /\ OuterCatch(op, err)
       /\ UNCHANGED calls

HeadFail ==
  /\ phase = "awaitHead"
  /\ \E err \in HeadErrors : InnerCatch("HeadObject", err)
  /\ UNCHANGED <<path, parsed, head, listed, crashed>>

\* obj.Body.pipe(res): the handler returns with the stream attached.
GetOk ==
  /\ phase = "awaitGet"
  /\ body' = [kind |-> "stream", bucket |-> parsed.bucket, key |-> parsed.key,
              complete |-> FALSE]
  /\ phase' = "piping"
  /\ UNCHANGED <<path, parsed, calls, failures, head, listed, status, headers, crashed>>

GetFail ==
  /\ phase = "awaitGet"
  /\ \E err \in GetErrors : InnerCatch("GetObject", err)
  /\ UNCHANGED <<path, parsed, head, listed, crashed>>

FallbackListOk ==
  /\ phase = "awaitFallbackList"
  /\ LET prefix == calls[Len(calls)].arg
         reqPath == IF EndsWithSlash(path) THEN path ELSE path \o <<"/">>
     IN  \E result \in ListResults(prefix) :
           LET folders == OrEmpty(result.CommonPrefixes)
               files == OrEmpty(result.Contents)
           IN  /\ listed' = Listing(folders, files)
               /\ IF Len(folders) > 0 \/ Len(files) > 0
                  THEN SendHtml(generateIndexHtml(parsed.bucket, prefix, folders, files, reqPath))
                  ELSE SendText(404, "Not found")
  /\ UNCHANGED <<path, parsed, calls, failures, head, crashed>>

\* A rejection inside the inner catch reaches the outer catch.
FallbackListFail ==
  /\ phase = "awaitFallbackList"
  /\ \E err \in ListErrors : OuterCatch("ListObjects", err)
  /\ UNCHANGED <<path, parsed, calls, head, listed, crashed>>

\* The piped stream ends: pipe() ends the response.
StreamEnd ==
  /\ phase = "piping"
  /\ body' = [body EXCEPT !.complete = TRUE]
  /\ phase' = "done"
  /\ UNCHANGED <<path, parsed, calls, failures, head, listed, status, headers, crashed>>

\* The piped stream emits "error": no listener is attached and the handler
\* has returned, so the event is an uncaught exception and the process exits;
\* pipe() does not end the response.
StreamError ==
  /\ phase = "piping"
  /\ failures' = Failed("Body", [name |-> "StreamError", status |-> NoStatus])
  /\ crashed' = TRUE
  /\ phase' = "crashed"
  /\ UNCHANGED <<path, parsed, calls, head, listed, status, headers, body>>

\* The next request gets fresh req/res objects.
NextRequest ==
  /\ phase = "done"
  /\ phase' = "idle"
  /\ path' = <<>>
  /\ parsed' = [bucket |-> Null, key |-> Null]
  /\ calls' = <<>>
  /\ failures' = <<>>
  /\ head' = NoHead
  /\ listed' = NoListing
  /\ status' = 200
  /\ headers' = NoHeaders
  /\ body' = NoBody
  /\ UNCHANGED crashed

Next ==
  \/ RootRequest \/ ListBucketsOk \/ ListBucketsFail
  \/ BadPathRequest \/ DirectoryRequest \/ ListOk \/ ListFail
  \/ ObjectRequest \/ HeadOk \/ HeadFail \/ GetOk \/ GetFail
  \/ FallbackListOk \/ FallbackListFail
  \/ StreamEnd \/ StreamError \/ NextRequest

Spec == Init /\ [][Next]_vars

-----------------------------------------------------------------------------
(* Vocabulary of the properties *)

\* The remote service reported absence.
NotFoundSignal(err) == err.status = 404

Ops == [i \in 1..Len(calls) |-> calls[i].op]

ObjectMode == calls /= <<>> /\ calls[1].op = "HeadObject"

FallbackIssued == ObjectMode /\ \E i \in 1..Len(calls) : calls[i].op = "ListObjects"

HeadNotFound ==
  /\ failures /= <<>>
  /\ failures[1].op = "HeadObject"
  /\ NotFoundSignal(failures[1].err)

Responded == phase = "done"

Streaming == phase = "piping" \/ (phase = "done" /\ body.kind = "stream")

\* The paths one slash away from p: a slash added at an end or next to a
\* slash, or a leading, trailing or doubled slash removed.
SlashVariants(p) ==
  LET n == Len(p)
      atSlash(i) == (i >= 1 /\ i <= n /\ p[i] = "/")
      added == {SubSeq(p, 1, i) \o <<"/">> \o SubSeq(p, i + 1, n) :
                  i \in {j \in 0..n : j = 0 \/ j = n \/ atSlash(j) \/ atSlash(j + 1)}}
      removed == {SubSeq(p, 1, i - 1) \o SubSeq(p, i + 1, n) :
                  i \in {j \in 1..n : atSlash(j) /\ (j = 1 \/ j = n \/ atSlash(j - 1) \/ atSlash(j + 1))}}
  IN  added \cup removed

-----------------------------------------------------------------------------
(* C1 *)

\* C1: in an object-mode request (parsed key non-empty, no trailing slash)
\* whose metadata check reported not-found, the next and last call lists
\* key + "/"; a listing with a folder or a file is answered 200 with the
\* listing page of that prefix, a listing with neither 404 "Not found".
C1_FallbackAfterHeadNotFound ==
  HeadNotFound =>
    /\ parsed.key /= <<>> /\ ~EndsWithSlash(parsed.key)
    /\ calls = <<Call("HeadObject", parsed.bucket, parsed.key),
                 Call("ListObjects", parsed.bucket, parsed.key \o <<"/">>)>>
    /\ (Responded /\ listed.received) =>
         IF Len(listed.folders) + Len(listed.files) >= 1
         THEN /\ status = 200
              /\ body.kind = "listing"
              /\ body.prefix = parsed.key \o <<"/">>
         ELSE /\ status = 404
              /\ body = TextBody("Not found")

C1_Witness ==
  /\ HeadNotFound /\ Responded /\ listed.received
  /\ Len(listed.folders) + Len(listed.files) >= 1
  /\ status = 200 /\ body.kind = "listing"

-----------------------------------------------------------------------------
(* C2 *)

\* The request path names a bucket and its key part is empty or ends in "/".
DirectoryPath(p) ==
  LET pk == parseBucketAndKey(p)
  IN  /\ p /= <<"/">>
      /\ pk.bucket /= Null
      /\ pk.key = <<>> \/ EndsWithSlash(p)

\* C2: a request whose path names a bucket and whose key part is empty or
\* ends in "/" is served as a directory: its one call is the listing, and
\* when the listing returns the response is a 200 listing page.
C2_TrailingSlashIsDirectory ==
  (phase /= "idle" /\ DirectoryPath(path)) =>
    /\ calls[1].op = "ListObjects"
    /\ (Responded /\ listed.received) => (status = 200 /\ body.kind = "listing")

-----------------------------------------------------------------------------
(* C3 *)

\* C3: no remote failure, a failure of the piped byte stream included,
\* crashes the process or leaves the request unanswered, and a request in
\* which a failure that is not a not-found occurred is answered 500.
C3_FailuresCaughtAtBoundary ==
  /\ ~crashed
  /\ \A i \in 1..Len(failures) :
       (Responded /\ ~NotFoundSignal(failures[i].err)) => status = 500

-----------------------------------------------------------------------------
(* C4 *)

\* C4: the pair parsed from the request path is the pair parsed from every
\* path that differs by an added or removed leading, trailing or duplicate
\* slash, and when there is a bucket, re-parsing "/" + bucket + "/" + key
\* gives the pair again.
C4_ParseIgnoresExtraSlashes ==
  (phase /= "idle" /\ path /= <<"/">>) =>
    /\ \A q \in SlashVariants(path) : parseBucketAndKey(q) = parsed
    /\ parsed.bucket /= Null =>
         parseBucketAndKey(<<"/">> \o parsed.bucket \o <<"/">> \o parsed.key) = parsed

C4_Witness ==
  /\ phase = "awaitHead"
  /\ \E i \in 2..(Len(path) - 2) : path[i] = "/" /\ path[i + 1] = "/"
  /\ EndsWithSlash(path)

-----------------------------------------------------------------------------
(* C5 *)

\* C5: a request for "/" makes the one call list-buckets; answered after a
\* success it is 200 with the buckets page, one row per returned bucket in
\* the returned order (none for no buckets); answered after a failure it is
\* 500 "Error listing buckets".
C5_RootListsBuckets ==
  (phase /= "idle" /\ path = <<"/">>) =>
    /\ calls = <<Call("ListBuckets", Null, Null)>>
    /\ Responded =>
         IF failures = <<>>
         THEN /\ status = 200
              /\ body.kind = "buckets"
              /\ Len(body.rows) = Len(listed.buckets)
              /\ \A i \in 1..Len(listed.buckets) :
                   /\ body.rows[i].text = listed.buckets[i].Name
                   /\ body.rows[i].href = <<"/">> \o listed.buckets[i].Name
         ELSE /\ status = 500
              /\ body = TextBody("Error listing buckets")

C5_Witness ==
  /\ path = <<"/">> /\ Responded /\ failures = <<>>
  /\ body.kind = "buckets"
  /\ Len(body.rows) = 2
  /\ body.rows[1].text /= body.rows[2].text

-----------------------------------------------------------------------------
(* C6 *)

\* C6: while and after the object's bytes are streamed the status is 200,
\* Content-Type is the metadata content-type when it has one, else the type
\* mime.lookup infers for the key when it knows one, else
\* application/octet-stream; Cache-Control and ETag carry the metadata's
\* values when it has them and are unset otherwise.
C6_StreamedObjectHeaders ==
  Streaming =>
    /\ head.received
    /\ status = 200
    /\ body.kind = "stream" /\ body.bucket = parsed.bucket /\ body.key = parsed.key
    /\ headers.ContentType =
         << IF Truthy(head.ContentType) THEN head.ContentType
            ELSE IF mimeLookup(parsed.key) /= False THEN mimeLookup(parsed.key)
            ELSE "application/octet-stream" >>
    /\ headers.CacheControl =
         (IF Truthy(head.CacheControl) THEN head.CacheControl ELSE Undefined)
    /\ headers.ETag = (IF Truthy(head.ETag) THEN head.ETag ELSE Undefined)

C6_Witness ==
  /\ Streaming
  /\ Truthy(head.ContentType)
  /\ mimeLookup(parsed.key) /= False
  /\ Truthy(head.CacheControl)
  /\ ~Truthy(head.ETag)

-----------------------------------------------------------------------------
(* C7 *)

\* C7 as stated: in object mode the fallback listing is issued only after a
\* not-found of the metadata check itself; any other failure, a not-found of
\* the body fetch included, issues no listing and is answered 500.
C7_FallbackOnlyOnHeadNotFound ==
  (ObjectMode /\ failures /= <<>> /\ ~HeadNotFound) =>
    /\ ~FallbackIssued
    /\ Responded => status = 500

\* C7 amended: in object mode the fallback listing is issued only after a
\* not-found of the metadata check or of the body fetch; a failure of either
\* that is not a not-found issues no listing and is answered with the
\* generic 500, and so is a failure of the fallback listing itself.
C7_FallbackOnlyOnNotFound ==
  ObjectMode =>
    /\ FallbackIssued =>
         /\ failures /= <<>>
         /\ failures[1].op \in {"HeadObject", "GetObject"}
         /\ NotFoundSignal(failures[1].err)
    /\ (failures /= <<>> /\ ~NotFoundSignal(failures[1].err)) =>
         /\ ~FallbackIssued
         /\ Responded => (status = 500 /\ body = TextBody("Error fetching from S3"))
    /\ (Len(failures) >= 2 /\ Responded) =>
         (status = 500 /\ body = TextBody("Error fetching from S3"))

C7_Witness ==
  /\ FallbackIssued
  /\ head.received
  /\ failures[1].op = "GetObject"
  /\ Responded /\ status = 200

-----------------------------------------------------------------------------
(* C8 *)

CompleteSequences ==
  {<<>>, <<"ListBuckets">>, <<"ListObjects">>,
   <<"HeadObject", "GetObject">>, <<"HeadObject", "ListObjects">>}

\* C8 as stated: the calls issued so far are always the beginning of one of
\* none, list-buckets, list-objects, head then get, head then list-objects;
\* there is never a third call.
C8_AtMostTwoCalls ==
  /\ Len(calls) <= 2
  /\ \E cs \in CompleteSequences : Len(Ops) <= Len(cs) /\ Ops = SubSeq(cs, 1, Len(Ops))

\* C8 amended: a request issues at most three calls, each operation at most
\* once; once it is answered (or streaming) its calls are none (only for a
\* 400), list-buckets, list-objects, head, head then get, head then
\* list-objects, or head then get then list-objects, the last only when the
\* body fetch reported not-found; there is never a fourth call.
C8_AtMostThreeCalls ==
  /\ Len(calls) <= 3
  /\ \A i, j \in 1..Len(calls) : Ops[i] = Ops[j] => i = j
  /\ (Responded \/ Streaming \/ crashed) =>
       /\ Ops \in CompleteSequences
                  \cup {<<"HeadObject">>, <<"HeadObject", "GetObject", "ListObjects">>}
       /\ Ops = <<>> => status = 400
       /\ Len(Ops) = 3 =>
            (failures[1].op = "GetObject" /\ NotFoundSignal(failures[1].err))

C8_Witness ==
  /\ Responded
  /\ Ops = <<"HeadObject", "GetObject", "ListObjects">>

-----------------------------------------------------------------------------
(* C9 *)

ParentLinks == {i \in 1..Len(body.rows) : body.rows[i].kind = "parent"}

\* The directory above the one a prefix names.
ParentOfPrefix(prefix) == Join(DropLast(FilterBoolean(Split(prefix, "/"))), "/")

\* C9: a rendered listing page has a parent row exactly when its prefix is
\* non-empty, and the row's link resolves to the listed directory with its
\* last segment removed (the bucket root for a one-segment prefix).
C9_ParentLinkIsParent ==
  (Responded /\ body.kind = "listing") =>
    /\ (ParentLinks /= {}) <=> (body.prefix /= <<>>)
    /\ \A i \in ParentLinks :
         parseBucketAndKey(body.rows[i].href) =
           [bucket |-> parsed.bucket, key |-> ParentOfPrefix(body.prefix)]

-----------------------------------------------------------------------------
(* C10 *)

\* C10: a response that is not the 200 stream of the object carries neither
\* the Cache-Control nor the ETag of the object's metadata: it has no
\* Cache-Control and no ETag but the one computed for its own body.
C10_ObjectHeadersOnlyOnStream ==
  (Responded /\ body.kind /= "stream") =>
    /\ headers.CacheControl = Undefined
    /\ headers.ETag = GeneratedETag

====
